---- MODULE Spec2Model ----
(***************************************************************************)
(* Client-side session lifecycle of the AYUSH Terminology Bridge front     *)
(* end (frontend/js/auth.js): the credential store kept in localStorage,   *)
(* login, logout, the periodic token refresh, the authenticatedFetch       *)
(* wrapper, the page guard and the role check.                             *)
(*                                                                         *)
(* The browser runs one task at a time, so every stretch of a handler      *)
(* between two awaits is one atomic action.  A handler that awaits a       *)
(* fetch is split in the action that issues the request and the action     *)
(* that runs when the response (or the network failure) is delivered.      *)
(* `await response.json()` is merged with the delivery of the response:    *)
(* no handler reads or writes shared state between the two.                *)
(***************************************************************************)
EXTENDS Integers, Sequences, FiniteSets, Bags, TLC

VARIABLES localStorage, pathname, navPending, redirectTimer, inflight, ui,
          directory, last, currentLogs, filteredLogs, currentPage, tbody

\* the globals of audit.js and the rows of its table
auditVars == <<currentLogs, filteredLogs, currentPage, tbody>>

vars == <<localStorage, pathname, navPending, redirectTimer, inflight, ui,
         directory, last, auditVars>>

(***************************************************************************)
(* Bounds of the model.                                                    *)
(***************************************************************************)
MaxInFlight == 2
MaxSerial == 2

(***************************************************************************)
(* JavaScript values.  `undefined` is a value of its own; a value that     *)
(* may be null is a sequence of length 0 (null) or 1.                      *)
(***************************************************************************)
Undefined == "<undefined>"
Null == <<>>
Some(v) == <<v>>

\* Bearer tokens are opaque to the client.  The server knows the subject a
\* token was issued to and tells two tokens of one subject apart by a serial.
EmptyString == [sub |-> "", n |-> 0]
UserIds == {"DR001", "DR002"}
Tokens == [sub : UserIds, n : 1..MaxSerial]

RankedRoles == {"practitioner", "researcher", "auditor", "admin"}
\* the roles the server may report: the four of the hierarchy and one the
\* hierarchy does not rank
ServerRoles == RankedRoles \cup {"guest"}
AllRoles == ServerRoles \cup {Undefined}

\* The user_info records the login endpoint can return.  The server's
\* directory holds the ones it does return; the role of an account can
\* change between two logins.
UserInfoRecords ==
    { [user_id |-> uid,
       name |-> IF uid = "DR001" THEN "Dr. Rajesh Kumar" ELSE "Dr. Priya Sharma",
       role |-> r,
       abha_id |-> IF uid = "DR001" THEN "12-3456-7890-1234" ELSE Undefined] :
      uid \in UserIds, r \in ServerRoles }

Accounts(uid) == { a \in directory : a.user_id = uid }

(***************************************************************************)
(* Strings that are searched are sequences of characters.                  *)
(***************************************************************************)
IndexPage == <<"/", "i", "n", "d", "e", "x", ".", "h", "t", "m", "l">>
DashboardPage == <<"/", "d", "a", "s", "h", "b", "o", "a", "r", "d", ".", "h", "t", "m", "l">>
AuditPage == <<"/", "a", "u", "d", "i", "t", ".", "h", "t", "m", "l">>
Pages == {IndexPage, DashboardPage, AuditPage}

DashboardMarker == <<"d", "a", "s", "h", "b", "o", "a", "r", "d">>
AuditMarker == <<"a", "u", "d", "i", "t">>

\* String.prototype.includes
Includes(s, sub) ==
    \E i \in 1..(Len(s) - Len(sub) + 1) : SubSeq(s, i, i + Len(sub) - 1) = sub

IsProtectedPath(p) == Includes(p, DashboardMarker) \/ Includes(p, AuditMarker)

(***************************************************************************)
(* JSON.  An encoded object is the sequence of its <<key, value>> members; *)
(* JSON.stringify omits the members whose value is undefined, JSON.parse   *)
(* gives back an object holding the members of the text, and throws a      *)
(* SyntaxError on a text that is not JSON, such as one cut short in the    *)
(* middle of a member.                                                     *)
(***************************************************************************)
ProfileKeys == <<"user_id", "name", "role", "abha_id">>

JSONstringify(obj) ==
    SelectSeq([i \in 1..Len(ProfileKeys) |-> <<ProfileKeys[i], obj[ProfileKeys[i]]>>],
              LAMBDA m : m[2] # Undefined)

\* a text cut short after the key of its first member
Truncated == << <<"user_id">> >>

\* whether JSON.parse returns (TRUE) or throws (FALSE)
Decodable(str) == \A i \in 1..Len(str) : Len(str[i]) = 2

JSONparse(str) ==
    [k \in { str[i][1] : i \in 1..Len(str) } |->
        LET i == CHOOSE j \in 1..Len(str) : str[j][1] = k IN str[i][2]]

\* obj.key
Prop(obj, k) == IF k \in DOMAIN obj THEN obj[k] ELSE Undefined

(***************************************************************************)
(* localStorage: a function from the keys it holds to their strings.       *)
(***************************************************************************)
GetItem(store, k) == IF k \in DOMAIN store THEN Some(store[k]) ELSE Null

SetItem(store, k, v) ==
    [x \in DOMAIN store \cup {k} |-> IF x = k THEN v ELSE store[x]]

RemoveItem(store, k) == [x \in DOMAIN store \ {k} |-> store[x]]

EmptyStore == [x \in {} |-> Null]

\* JavaScript truthiness of a possibly-null string
Truthy(item) == item # Null /\ item[1] # EmptyString

getAuthToken(store) == GetItem(store, "auth_token")
setAuthToken(store, token) == SetItem(store, "auth_token", token)
removeAuthToken(store) == RemoveItem(store, "auth_token")

getUserInfo(store) ==
    LET userStr == GetItem(store, "user_info")
    IN  IF userStr # Null THEN Some(JSONparse(userStr[1])) ELSE Null

\* getUserInfo has no try/catch: it throws what JSON.parse throws, and so
\* does every function that calls it
getUserInfoThrows(store) ==
    LET userStr == GetItem(store, "user_info")
    IN  userStr # Null /\ ~Decodable(userStr[1])

setUserInfo(store, userInfo) == SetItem(store, "user_info", JSONstringify(userInfo))
removeUserInfo(store) == RemoveItem(store, "user_info")

\* The value of the Authorization header: the empty string (no member) or
\* "Bearer " followed by the token.
getAuthHeaders(store) ==
    LET token == getAuthToken(store)
    IN  IF Truthy(token) THEN <<"Bearer", token[1]>> ELSE <<>>

(***************************************************************************)
(* The visible page.  A page load starts from what the HTML says: the      *)
(* sections as the page ships them ("default"), the role-gated links       *)
(* hidden, since updateUIForLoggedInUser only ever shows them.  The login  *)
(* modal's own visibility is not part of the session state and is left     *)
(* out, and so is the user name shown, which is the name of the stored     *)
(* profile.  The text a handler shows in the login form's error line or as *)
(* a notification is recorded with the event (last.note).                  *)
(***************************************************************************)
DomDefault ==
    [sections |-> "default",
     dashboardLink |-> "none", auditLink |-> "none",
     spinner |-> FALSE,
     charts |-> FALSE]

\* initializeCharts of dashboard.js: the two charts are drawn
initializeCharts(u) == [u EXCEPT !.charts = TRUE]

showLoadingSpinner(u) == [u EXCEPT !.spinner = TRUE]

\* a finally block that leaves the spinner as it is
hideLoadingSpinner_forgotten(u) == u

hideLoadingSpinner(u) == [u EXCEPT !.spinner = FALSE]

updateUIForLoggedInUser(store, u) ==
    LET userInfo == getUserInfo(store)
    IN  IF userInfo = Null THEN u
        ELSE LET role == Prop(userInfo[1], "role")
             IN  [u EXCEPT !.sections = "loggedIn",
                           !.dashboardLink =
                               IF role = "admin" \/ role = "researcher"
                               THEN "inline-block" ELSE @,
                           !.auditLink =
                               IF role = "admin" \/ role = "auditor"
                               THEN "inline-block" ELSE @]

\* a projection that flips the sections instead of setting them
updateUIForLoggedOutUser_toggle(u) ==
    [u EXCEPT !.sections = IF @ = "loggedOut" THEN "default" ELSE "loggedOut",
              !.dashboardLink = "none",
              !.auditLink = "none"]

updateUIForLoggedOutUser(u) ==
    [u EXCEPT !.sections = "loggedOut",
              !.dashboardLink = "none",
              !.auditLink = "none"]

\* checkAuthStatus: its return value, and the page it leaves; it reads the
\* profile before it touches the page
isAuthenticated(store) ==
    Truthy(getAuthToken(store)) /\ getUserInfo(store) # Null

checkAuthStatusUI(store, u) ==
    IF getUserInfoThrows(store) THEN u
    ELSE IF isAuthenticated(store)
    THEN updateUIForLoggedInUser(store, u)
    ELSE updateUIForLoggedOutUser(u)

(***************************************************************************)
(* Role-based access.                                                      *)
(***************************************************************************)
\* the table with researcher and auditor exchanged
roleHierarchy_swapped ==
    [r \in RankedRoles |->
        CASE r = "admin" -> 4
          [] r = "auditor" -> 2
          [] r = "researcher" -> 3
          [] r = "practitioner" -> 1]

roleHierarchy ==
    [r \in RankedRoles |->
        CASE r = "admin" -> 4
          [] r = "auditor" -> 3
          [] r = "researcher" -> 2
          [] r = "practitioner" -> 1]

\* The table is an object literal, so a key it does not define is looked up
\* in Object.prototype: "toString" finds a function, any other role the
\* model uses finds undefined.
InheritedKeys == {"toString"}

\* unknown roles defaulting to the lowest rank of the table instead of 0
Level_orOne(role) ==
    IF role \in DOMAIN roleHierarchy THEN [num |-> roleHierarchy[role]]
    ELSE IF role \in InheritedKeys THEN [fn |-> role]
    ELSE [num |-> 1]

\* roleHierarchy[role] || 0: a number, or an inherited function (truthy)
Level(role) ==
    IF role \in DOMAIN roleHierarchy THEN [num |-> roleHierarchy[role]]
    ELSE IF role \in InheritedKeys THEN [fn |-> role]
    ELSE [num |-> 0]

\* a >= b: two numbers are compared; a function is converted to its source
\* text, which compared with a number is NaN (false) and compared with the
\* text of the same function is equal
GreaterEq(a, b) ==
    IF "num" \in DOMAIN a /\ "num" \in DOMAIN b THEN a.num >= b.num
    ELSE IF "fn" \in DOMAIN a /\ "fn" \in DOMAIN b THEN a.fn = b.fn
    ELSE FALSE

\* an equality-based access check
hasPermission_equal(store, requiredRole) ==
    LET userInfo == getUserInfo(store)
    IN  IF userInfo = Null THEN FALSE
        ELSE Level(Prop(userInfo[1], "role")) = Level(requiredRole)

hasPermission(store, requiredRole) ==
    LET userInfo == getUserInfo(store)
    IN  IF userInfo = Null THEN FALSE
        ELSE GreaterEq(Level(Prop(userInfo[1], "role")), Level(requiredRole))

(***************************************************************************)
(* Requests and responses.  A request in flight remembers the endpoint,    *)
(* the Authorization header it was sent with and, for a login, the user id *)
(* of the form.  The server answers with a success or an error status, or  *)
(* the fetch fails; a body that decodes has the members the client reads   *)
(* for that endpoint, and a 500 of the login endpoint or a 200 of the      *)
(* refresh endpoint may carry a body that is not JSON.  What the server    *)
(* does with a logout is outside the model, so a logout request is         *)
(* recorded without its header.                                            *)
(***************************************************************************)
Request(kind, auth, uid) == [kind |-> kind, auth |-> auth, user_id |-> uid]

NetworkError == [type |-> "error"]
Http(status, json, data) == [type |-> "http", status |-> status, json |-> json, data |-> data]
NoBody == [none |-> TRUE]

\* response.ok
Ok(resp) == resp.status >= 200 /\ resp.status <= 299

ErrorBodies == { [error |-> "Invalid credentials"], [error |-> Undefined] }

LoginResponses(req) ==
    {NetworkError}
    \cup { Http(200, TRUE, [access_token |-> t, user_info |-> a]) :
             t \in { k \in Tokens : k.sub = req.user_id }, a \in Accounts(req.user_id) }
    \cup { Http(401, TRUE, b) : b \in ErrorBodies }
    \cup { Http(500, FALSE, NoBody) }

\* The refresh endpoint issues a token to the subject of the bearer token.
RefreshResponses(req) ==
    {NetworkError}
    \cup { Http(200, TRUE, [access_token |-> t]) :
             t \in { k \in Tokens : req.auth # <<>> /\ k.sub = req.auth[2].sub } }
    \cup { Http(s, TRUE, [error |-> Undefined]) : s \in {401, 500} }
    \cup { Http(200, FALSE, NoBody) }

AnyResponses ==
    {NetworkError} \cup { Http(s, FALSE, NoBody) : s \in {200, 401, 500} }

CanIssue == BagCardinality(inflight) < MaxInFlight
Issue(req) == inflight (+) SetToBag({req})

\* a refresh that is sent again when its answer has been handled
Settle_resend(req) ==
    IF req.kind = "refresh" THEN inflight ELSE inflight (-) SetToBag({req})

Settle(req) == inflight (-) SetToBag({req})
Pending(kind) == { r \in BagToSet(inflight) : r.kind = kind }

\* The event a step leaves in `last`: the handler that ran, the response it
\* was given (status 0: the fetch failed), what the handler returned or
\* threw, the text it showed, the token it stored, and whether a token was
\* stored when it started.
NoResponse == [type |-> "none"]
Event(op, resp, ret, note, tok) ==
    [op |-> op,
     status |-> IF resp.type = "http" THEN resp.status ELSE 0,
     json |-> IF resp.type = "http" THEN resp.json ELSE FALSE,
     ret |-> ret, note |-> note, tok |-> tok,
     had |-> "auth_token" \in DOMAIN localStorage]

\* || on strings
OrElse(v, dflt) == IF v = Undefined \/ v = "" THEN dflt ELSE v

(***************************************************************************)
(* The globals of audit.js as the script sets them when a page loads: no   *)
(* logs, page 1, and the table body as the HTML ships it.  On the other    *)
(* pages the script is not loaded and they keep these values.              *)
(***************************************************************************)
AuditGlobals ==
    /\ currentLogs = <<>>
    /\ filteredLogs = <<>>
    /\ currentPage = 1
    /\ tbody = <<>>

\* a page load runs the scripts of the new page afresh
AuditReset ==
    /\ currentLogs' = <<>>
    /\ filteredLogs' = <<>>
    /\ currentPage' = 1
    /\ tbody' = <<>>

(***************************************************************************)
(* Init: a freshly loaded landing page of a browser that holds no session; *)
(* the server knows one user, whose role is one of the hierarchy.          *)
(***************************************************************************)
Init ==
    /\ localStorage = EmptyStore
    /\ pathname = IndexPage
    /\ navPending = FALSE
    /\ redirectTimer = FALSE
    /\ AuditGlobals
    /\ inflight = EmptyBag
    /\ ui = checkAuthStatusUI(EmptyStore, DomDefault)
    /\ directory = { a \in UserInfoRecords :
                        a.user_id = "DR001" /\ a.role \in RankedRoles }
    /\ last = Event("page_load", NoResponse, "none", "", Null)

(***************************************************************************)
(* handleLogin                                                             *)
(***************************************************************************)
LoginSubmit(uid) ==
    /\ CanIssue
    /\ ui' = showLoadingSpinner(ui)
    /\ inflight' = Issue(Request("login", <<>>, uid))
    /\ last' = Event("login_submit", NoResponse, "none", "", Null)
    /\ UNCHANGED <<localStorage, pathname, navPending, directory,
                   redirectTimer, auditVars>>

\* the store after the success branch of handleLogin
LoginStore(store, data) ==
    setUserInfo(setAuthToken(store, data.access_token),
                [user_id |-> data.user_info.user_id,
                 name |-> data.user_info.name,
                 role |-> data.user_info.role,
                 abha_id |-> data.user_info.abha_id])

LoginResponse(req, resp) ==
    /\ req \in Pending("login")
    /\ inflight' = Settle(req)
    /\ IF resp.type = "error" \/ ~resp.json
       THEN \* fetch or response.json() rejected: the catch block
            /\ localStorage' = localStorage
            /\ ui' = hideLoadingSpinner(ui)
            /\ last' = Event("login_response", resp, "none", "Network error. Please try again.", Null)
       ELSE IF Ok(resp)
       THEN /\ localStorage' = LoginStore(localStorage, resp.data)
            /\ ui' = hideLoadingSpinner(updateUIForLoggedInUser(localStorage', ui))
            /\ last' = Event("login_response", resp, "none", "Login successful!",
                            Some(resp.data.access_token))
       ELSE /\ localStorage' = localStorage
            /\ ui' = hideLoadingSpinner(ui)
            /\ last' = Event("login_response", resp, "none",
                            OrElse(resp.data.error, "Login failed"), Null)
    /\ UNCHANGED <<pathname, navPending, directory, redirectTimer, auditVars>>

(***************************************************************************)
(* logout                                                                  *)
(***************************************************************************)
LogoutStart ==
    /\ CanIssue
    /\ ui' = showLoadingSpinner(ui)
    /\ inflight' = Issue(Request("logout", <<>>, ""))
    /\ last' = Event("logout_start", NoResponse, "none", "", Null)
    /\ UNCHANGED <<localStorage, pathname, navPending, directory,
                   redirectTimer, auditVars>>

\* logout forgetting removeUserInfo
LogoutStore_keepProfile(store, resp) == removeAuthToken(store)

\* logout with the clean-up in the try block: skipped when the fetch fails
LogoutStore_inTry(store, resp) ==
    IF resp.type = "error" THEN store ELSE removeUserInfo(removeAuthToken(store))

\* the store after the finally block of logout
LogoutStore(store, resp) == removeUserInfo(removeAuthToken(store))

LogoutResponse(req, resp) ==
    /\ req \in Pending("logout")
    /\ resp \in AnyResponses
    /\ inflight' = Settle(req)
    /\ localStorage' = LogoutStore(localStorage, resp)
    /\ ui' = hideLoadingSpinner(updateUIForLoggedOutUser(ui))
    /\ navPending' = (navPending \/ IsProtectedPath(pathname))
    /\ last' = Event("logout_response", resp, "none", "Logged out successfully", Null)
    /\ UNCHANGED <<pathname, directory, redirectTimer, auditVars>>

(***************************************************************************)
(* authenticatedFetch                                                      *)
(***************************************************************************)
\* options.headers of a caller that passes none
NoHeaders == [h \in {} |-> <<>>]

\* { ...headers, ...options.headers }: a header of the caller replaces the
\* header of the same name
MergeHeaders(headers, own) ==
    [h \in DOMAIN headers \cup DOMAIN own |->
        IF h \in DOMAIN own THEN own[h] ELSE headers[h]]

\* the request authenticatedFetch sends for a caller whose options carry the
\* headers `own`
FetchRequest(store, kind, own) ==
    Request(kind,
            MergeHeaders([h \in {"Authorization"} |-> getAuthHeaders(store)], own)["Authorization"],
            "")

\* the request authenticatedFetch sends for the callers of this repository,
\* none of which passes headers
AuthenticatedRequest(store, kind) == FetchRequest(store, kind, NoHeaders)

\* authenticatedFetch forgetting removeUserInfo on a 401
authenticatedFetch_tokenOnly(store, resp) ==
    IF resp.type = "error"
    THEN [store |-> store, redirect |-> FALSE, ret |-> "throw", note |-> ""]
    ELSE IF resp.status = 401
    THEN [store |-> removeAuthToken(store),
          redirect |-> TRUE, ret |-> "throw",
          note |-> "Session expired. Please login again."]
    ELSE [store |-> store, redirect |-> FALSE, ret |-> "response", note |-> ""]

\* what authenticatedFetch does when its fetch settles with resp: the store
\* it leaves, whether it assigns window.location.href, and whether it
\* returns the response or throws
authenticatedFetch(store, resp) ==
    IF resp.type = "error"
    THEN [store |-> store, redirect |-> FALSE, ret |-> "throw", note |-> ""]
    ELSE IF resp.status = 401
    THEN [store |-> removeUserInfo(removeAuthToken(store)),
          redirect |-> TRUE, ret |-> "throw",
          note |-> "Session expired. Please login again."]
    ELSE [store |-> store, redirect |-> FALSE, ret |-> "response", note |-> ""]

\* Any other caller of authenticatedFetch (search, translation, FHIR,
\* analytics, audit): what it does with the response leaves the session alone.
ApiCall ==
    /\ CanIssue
    /\ inflight' = Issue(AuthenticatedRequest(localStorage, "api"))
    /\ last' = Event("api_call", NoResponse, "none", "", Null)
    /\ UNCHANGED <<localStorage, pathname, navPending, ui, directory,
                   redirectTimer, auditVars>>

ApiResponse(req, resp) ==
    /\ req \in Pending("api")
    /\ resp \in AnyResponses
    /\ inflight' = Settle(req)
    /\ LET r == authenticatedFetch(localStorage, resp)
       IN  /\ localStorage' = r.store
           /\ navPending' = (navPending \/ r.redirect)
           /\ last' = Event("api_response", resp, r.ret, r.note, Null)
    /\ UNCHANGED <<pathname, ui, directory, redirectTimer, auditVars>>

(***************************************************************************)
(* The refresh timer (setInterval, every 50 minutes)                       *)
(***************************************************************************)
\* the callback without its `if (token)` guard
RefreshGuard_always(store) == TRUE

\* whether the callback issues a refresh request
RefreshGuard(store) == Truthy(getAuthToken(store))

TimerFire ==
    IF RefreshGuard(localStorage)
    THEN /\ CanIssue
         /\ inflight' = Issue(AuthenticatedRequest(localStorage, "refresh"))
         /\ last' = Event("timer", NoResponse, "request", "", Null)
         /\ UNCHANGED <<localStorage, pathname, navPending, ui, directory,
                        redirectTimer, auditVars>>
    ELSE /\ last' = Event("timer", NoResponse, "none", "", Null)
         /\ UNCHANGED <<localStorage, pathname, navPending, inflight, ui, directory,
                        redirectTimer, auditVars>>

\* the callback storing the new token only while a token is still stored
RefreshStore_ifSession(store, resp) ==
    IF Ok(resp) /\ resp.json /\ "auth_token" \in DOMAIN store
    THEN setAuthToken(store, resp.data.access_token)
    ELSE store

\* the callback dropping the token when the refresh is refused
RefreshStore_hardFail(store, resp) ==
    IF Ok(resp) /\ resp.json
    THEN setAuthToken(store, resp.data.access_token)
    ELSE removeAuthToken(store)

\* the callback ignoring the token of the response
RefreshStore_keepOld(store, resp) == store

\* the store after the callback has handled the response authenticatedFetch
\* returned to it
RefreshStore(store, resp) ==
    IF Ok(resp) /\ resp.json
    THEN setAuthToken(store, resp.data.access_token)
    ELSE store

RefreshResponse(req, resp) ==
    /\ req \in Pending("refresh")
    /\ resp \in RefreshResponses(req)
    /\ inflight' = Settle(req)
    /\ LET r == authenticatedFetch(localStorage, resp)
       IN  /\ navPending' = (navPending \/ r.redirect)
           /\ IF r.ret = "throw"
              THEN \* caught and logged by the callback
                   /\ localStorage' = r.store
                   /\ last' = Event("refresh_response", resp, r.ret, r.note, Null)
              ELSE /\ localStorage' = RefreshStore(r.store, resp)
                   /\ last' = Event("refresh_response", resp, r.ret, r.note,
                                    IF Ok(resp) /\ resp.json
                                    THEN Some(resp.data.access_token) ELSE Null)
    /\ UNCHANGED <<pathname, ui, directory, redirectTimer, auditVars>>

(***************************************************************************)
(* Page guard                                                              *)
(***************************************************************************)
\* requireAuth testing the path for "dashboard" only
requireAuth_dashboardOnly(store, path) ==
    IF getUserInfoThrows(store)
    THEN [ret |-> FALSE, redirect |-> FALSE, thrown |-> TRUE]
    ELSE IF Includes(path, DashboardMarker) /\ ~isAuthenticated(store)
    THEN [ret |-> FALSE, redirect |-> TRUE, thrown |-> FALSE]
    ELSE [ret |-> isAuthenticated(store), redirect |-> FALSE, thrown |-> FALSE]

\* requireAuth: its return value, whether it assigns window.location.href,
\* and whether it threw instead (then it returned nothing)
requireAuth(store, path) ==
    IF getUserInfoThrows(store)
    THEN [ret |-> FALSE, redirect |-> FALSE, thrown |-> TRUE]
    ELSE IF IsProtectedPath(path) /\ ~isAuthenticated(store)
    THEN [ret |-> FALSE, redirect |-> TRUE, thrown |-> FALSE]
    ELSE [ret |-> isAuthenticated(store), redirect |-> FALSE, thrown |-> FALSE]

RequireAuth ==
    LET r == requireAuth(localStorage, pathname)
    IN  /\ ui' = checkAuthStatusUI(localStorage, ui)
        /\ navPending' = (navPending \/ r.redirect)
        /\ last' = Event("require_auth", NoResponse,
                         IF r.thrown THEN "SyntaxError"
                         ELSE IF r.ret THEN "true" ELSE "false",
                         IF r.redirect THEN "redirect" ELSE "", Null)
        /\ UNCHANGED <<localStorage, pathname, inflight, directory, redirectTimer, auditVars>>

(***************************************************************************)
(* Navigation.  Assigning window.location.href starts a navigation; the    *)
(* page keeps running until the new document is committed, and committing  *)
(* it drops the requests of the old page.  Every page load runs the        *)
(* DOMContentLoaded handler of auth.js, checkAuthStatus.                   *)
(***************************************************************************)
PageLoad(p) ==
    /\ pathname' = p
    /\ navPending' = FALSE
    /\ inflight' = EmptyBag
    /\ ui' = checkAuthStatusUI(localStorage, DomDefault)
    /\ last' = Event("page_load", NoResponse,
                     IF getUserInfoThrows(localStorage) THEN "SyntaxError" ELSE "none",
                     "", Null)
    /\ redirectTimer' = FALSE
    /\ AuditReset
    /\ UNCHANGED <<localStorage, directory>>

\* the navigation started by a redirect to index.html is committed
RedirectCommit ==
    /\ navPending
    /\ PageLoad(IndexPage)

\* the user opens a page
UserNavigate(p) ==
    /\ ~navPending
    /\ p # pathname
    /\ PageLoad(p)

Next ==
    \/ \E uid \in { a.user_id : a \in directory } : LoginSubmit(uid)
    \/ \E req \in BagToSet(inflight) : \E resp \in LoginResponses(req) : LoginResponse(req, resp)
    \/ LogoutStart
    \/ \E req \in BagToSet(inflight) : \E resp \in AnyResponses : LogoutResponse(req, resp)
    \/ ApiCall
    \/ \E req \in BagToSet(inflight) : \E resp \in AnyResponses : ApiResponse(req, resp)
    \/ TimerFire
    \/ \E req \in BagToSet(inflight) : \E resp \in RefreshResponses(req) : RefreshResponse(req, resp)
    \/ RequireAuth
    \/ RedirectCommit
    \/ \E p \in Pages : UserNavigate(p)

Spec == Init /\ [][Next]_vars

(***************************************************************************)
(* The protected pages.  dashboard.js and audit.js register a              *)
(* DOMContentLoaded handler next to the one of auth.js; the handlers of a  *)
(* page run one after the other in the same task, so opening a page is one *)
(* action.  A handler that refuses the role schedules the redirect with    *)
(* setTimeout (redirectTimer); the timer dies with the page.               *)
(***************************************************************************)
\* the endpoints the five loaders of loadDashboardData fetch, and the one
\* of loadAuditLogs
DashboardEndpoints ==
    <<"dashboard-stats", "popular-searches", "dashboard-stats",
      "dashboard-stats", "translation-stats">>
AuditEndpoints == <<"audit-recent">>
DataKinds ==
    { DashboardEndpoints[i] : i \in DOMAIN DashboardEndpoints }
        \cup { AuditEndpoints[i] : i \in DOMAIN AuditEndpoints }

\* the requests a loader list issues, each through authenticatedFetch
RECURSIVE IssueAll(_, _)
IssueAll(store, endpoints) ==
    IF endpoints = <<>> THEN EmptyBag
    ELSE SetToBag({AuthenticatedRequest(store, Head(endpoints))})
            (+) IssueAll(store, Tail(endpoints))

\* The DOMContentLoaded handler of dashboard.js on the page u: the page it
\* leaves, whether requireAuth redirected, whether the delayed redirect was
\* scheduled, the requests loadDashboardData issued, and whether the handler
\* ended with the exception of requireAuth.
DashboardLoaded(store, path, u) ==
    LET g == requireAuth(store, path)
        u1 == checkAuthStatusUI(store, u)
    IN  IF g.thrown \/ ~g.ret
        THEN [ui |-> u1, redirect |-> g.redirect, timer |-> FALSE,
              requests |-> EmptyBag, thrown |-> g.thrown, note |-> ""]
        ELSE IF ~hasPermission(store, "researcher")
        THEN [ui |-> u1, redirect |-> FALSE, timer |-> TRUE,
              requests |-> EmptyBag, thrown |-> FALSE,
              note |-> "You do not have permission to view this page"]
        ELSE [ui |-> showLoadingSpinner(u1), redirect |-> FALSE, timer |-> FALSE,
              requests |-> IssueAll(store, DashboardEndpoints),
              thrown |-> FALSE, note |-> ""]

\* the audit page admitting every researcher
AuditLoaded_researcher(store, path, u) ==
    LET g == requireAuth(store, path)
        u1 == checkAuthStatusUI(store, u)
    IN  IF g.thrown \/ ~g.ret
        THEN [ui |-> u1, redirect |-> g.redirect, timer |-> FALSE,
              requests |-> EmptyBag, thrown |-> g.thrown, note |-> ""]
        ELSE IF ~hasPermission(store, "researcher")
        THEN [ui |-> u1, redirect |-> FALSE, timer |-> TRUE,
              requests |-> EmptyBag, thrown |-> FALSE,
              note |-> "You do not have permission to view audit logs"]
        ELSE [ui |-> u1, redirect |-> FALSE, timer |-> FALSE,
              requests |-> IssueAll(store, AuditEndpoints),
              thrown |-> FALSE, note |-> ""]

\* The DOMContentLoaded handler of audit.js.
AuditLoaded(store, path, u) ==
    LET g == requireAuth(store, path)
        u1 == checkAuthStatusUI(store, u)
    IN  IF g.thrown \/ ~g.ret
        THEN [ui |-> u1, redirect |-> g.redirect, timer |-> FALSE,
              requests |-> EmptyBag, thrown |-> g.thrown, note |-> ""]
        ELSE IF ~hasPermission(store, "auditor")
        THEN [ui |-> u1, redirect |-> FALSE, timer |-> TRUE,
              requests |-> EmptyBag, thrown |-> FALSE,
              note |-> "You do not have permission to view audit logs"]
        ELSE [ui |-> u1, redirect |-> FALSE, timer |-> FALSE,
              requests |-> IssueAll(store, AuditEndpoints),
              thrown |-> FALSE, note |-> ""]

\* the user opens a page: checkAuthStatus of auth.js, then the handler of
\* the page's own script
OpenPage(p) ==
    /\ ~navPending
    /\ p # pathname
    /\ IF p = IndexPage THEN PageLoad(p)
       ELSE LET u0 == checkAuthStatusUI(localStorage, DomDefault)
                r == IF p = DashboardPage
                     THEN DashboardLoaded(localStorage, p, u0)
                     ELSE AuditLoaded(localStorage, p, u0)
            IN  /\ pathname' = p
                /\ ui' = r.ui
                /\ navPending' = r.redirect
                /\ redirectTimer' = r.timer
                /\ inflight' = r.requests
                /\ last' = Event(IF p = DashboardPage THEN "dashboard_load" ELSE "audit_load",
                                 NoResponse,
                                 IF r.thrown THEN "SyntaxError" ELSE "none",
                                 r.note, Null)
                /\ AuditReset
                /\ UNCHANGED <<localStorage, directory>>

\* a loader's fetch settles: authenticatedFetch handles a 401, the loader
\* catches what is thrown, and once its five loaders are done
\* loadDashboardData draws the charts and hides the spinner
DataResponse(req, resp) ==
    /\ req \in BagToSet(inflight)
    /\ req.kind \in DataKinds
    /\ resp \in AnyResponses
    /\ inflight' = Settle(req)
    /\ LET r == authenticatedFetch(localStorage, resp)
       IN  /\ localStorage' = r.store
           /\ navPending' = (navPending \/ r.redirect)
           /\ last' = Event("data_response", resp, r.ret, r.note, Null)
    /\ ui' = IF pathname = DashboardPage
                  /\ \A q \in BagToSet(inflight') : q.kind \notin DataKinds
             THEN hideLoadingSpinner(initializeCharts(ui)) ELSE ui
    /\ UNCHANGED <<pathname, directory, redirectTimer, auditVars>>

\* the callback of the delayed redirect
RedirectTimeout ==
    /\ redirectTimer
    /\ redirectTimer' = FALSE
    /\ navPending' = TRUE
    /\ last' = Event("redirect_timeout", NoResponse, "none", "", Null)
    /\ UNCHANGED <<localStorage, pathname, inflight, ui, directory, auditVars>>

\* One user whose role at the server is any of the five.
GuardInit ==
    /\ localStorage = EmptyStore
    /\ pathname = IndexPage
    /\ navPending = FALSE
    /\ redirectTimer = FALSE
    /\ AuditGlobals
    /\ inflight = EmptyBag
    /\ ui = checkAuthStatusUI(EmptyStore, DomDefault)
    /\ directory = { a \in UserInfoRecords : a.user_id = "DR001" }
    /\ last = Event("page_load", NoResponse, "none", "", Null)

GuardNext ==
    \/ \E uid \in { a.user_id : a \in directory } : LoginSubmit(uid)
    \/ \E req \in BagToSet(inflight) : \E resp \in LoginResponses(req) : LoginResponse(req, resp)
    \/ LogoutStart
    \/ \E req \in BagToSet(inflight) : \E resp \in AnyResponses : LogoutResponse(req, resp)
    \/ \E p \in Pages : OpenPage(p)
    \/ \E req \in BagToSet(inflight) : \E resp \in AnyResponses : DataResponse(req, resp)
    \/ RedirectTimeout
    \/ RedirectCommit

GuardSpec == GuardInit /\ [][GuardNext]_vars

(***************************************************************************)
(* What the store may hold.  localStorage outlives the page: a visit       *)
(* starts with what an earlier visit, another version of the application   *)
(* or the user left under the two keys, and the login endpoint decides     *)
(* which token string is stored next.                                      *)
(***************************************************************************)
\* the profile texts a visit may find: a profile with any role, with a role
\* that names an inherited key, with none, or a text cut short
LeftoverProfiles ==
    { JSONstringify([a EXCEPT !.role = r]) :
        a \in { x \in UserInfoRecords : x.user_id = "DR001" /\ x.role = "guest" },
        r \in AllRoles \cup InheritedKeys }
      \cup {Truncated}

LeftoverTokens == { [sub |-> "DR001", n |-> 1] }

LeftoverStores ==
    LET withToken == {EmptyStore} \cup { setAuthToken(EmptyStore, t) : t \in LeftoverTokens }
    IN  withToken \cup { SetItem(s, "user_info", p) : s \in withToken, p \in LeftoverProfiles }

\* a login answered with an empty access_token
EmptyTokenResponses(req) ==
    { Http(200, TRUE, [access_token |-> EmptyString, user_info |-> a]) :
        a \in Accounts(req.user_id) }

\* the headers a caller of authenticatedFetch may pass in its options: none,
\* one the wrapper does not set, or an Authorization header of its own
OwnHeaders ==
    { NoHeaders,
      [h \in {"Accept"} |-> <<"application/json">>],
      [h \in {"Authorization"} |-> <<"Bearer", [sub |-> "DR002", n |-> 1]>>] }

\* a script calls authenticatedFetch(url, options)
FetchCall(own) ==
    /\ CanIssue
    /\ inflight' = Issue(FetchRequest(localStorage, "api", own))
    /\ last' = Event("fetch_call", NoResponse, "none", "", Null)
    /\ UNCHANGED <<localStorage, pathname, navPending, redirectTimer, ui, directory,
                   auditVars>>

\* a page script asks hasPermission(requiredRole)
HasPermissionCall(requiredRole) ==
    /\ last' = Event("has_permission", NoResponse,
                     IF getUserInfoThrows(localStorage) THEN "SyntaxError"
                     ELSE IF hasPermission(localStorage, requiredRole)
                     THEN "true" ELSE "false",
                     requiredRole, Null)
    /\ UNCHANGED <<localStorage, pathname, navPending, redirectTimer,
                   inflight, ui, directory, auditVars>>

StoreInit ==
    /\ localStorage \in LeftoverStores
    /\ pathname = IndexPage
    /\ navPending = FALSE
    /\ redirectTimer = FALSE
    /\ AuditGlobals
    /\ inflight = EmptyBag
    /\ ui = checkAuthStatusUI(localStorage, DomDefault)
    /\ directory = { a \in UserInfoRecords : a.user_id = "DR001" }
    /\ last = Event("page_load", NoResponse,
                    IF getUserInfoThrows(localStorage) THEN "SyntaxError" ELSE "none",
                    "", Null)

StoreNext ==
    \/ \E uid \in { a.user_id : a \in directory } : LoginSubmit(uid)
    \/ \E req \in BagToSet(inflight) :
          \E resp \in LoginResponses(req) \cup EmptyTokenResponses(req) :
             LoginResponse(req, resp)
    \/ \E q \in AllRoles \cup InheritedKeys : HasPermissionCall(q)
    \/ \E own \in OwnHeaders : FetchCall(own)
    \/ \E req \in BagToSet(inflight) : \E resp \in AnyResponses : ApiResponse(req, resp)
    \/ RequireAuth
    \/ RedirectCommit
    \/ \E p \in Pages : UserNavigate(p)

StoreSpec == StoreInit /\ [][StoreNext]_vars

(***************************************************************************)
(* Two users of one browser.  The server knows two practitioners; the      *)
(* login form takes either, and the refresh endpoint answers with a token  *)
(* of the subject whose bearer token the request carried.                  *)
(***************************************************************************)
TwoUserInit ==
    /\ localStorage = EmptyStore
    /\ pathname = IndexPage
    /\ navPending = FALSE
    /\ redirectTimer = FALSE
    /\ AuditGlobals
    /\ inflight = EmptyBag
    /\ ui = checkAuthStatusUI(EmptyStore, DomDefault)
    /\ directory = { a \in UserInfoRecords : a.role = "practitioner" }
    /\ last = Event("page_load", NoResponse, "none", "", Null)

TwoUserNext ==
    \/ \E uid \in { a.user_id : a \in directory } : LoginSubmit(uid)
    \/ \E req \in BagToSet(inflight) : \E resp \in LoginResponses(req) : LoginResponse(req, resp)
    \/ LogoutStart
    \/ \E req \in BagToSet(inflight) : \E resp \in AnyResponses : LogoutResponse(req, resp)
    \/ TimerFire
    \/ \E req \in BagToSet(inflight) : \E resp \in RefreshResponses(req) : RefreshResponse(req, resp)

TwoUserSpec == TwoUserInit /\ [][TwoUserNext]_vars

(***************************************************************************)
(* The audit viewer (audit.js).  A log carries what the filters read: the  *)
(* user id, as characters, and the day of its timestamp.  The server       *)
(* answers with its most recent logs, any number of them up to the limit.  *)
(***************************************************************************)
logsPerPage == 50
MaxLogs == 101

Log(i) ==
    [id |-> i,
     user_id |-> IF i % 2 = 1 THEN <<"D", "R", "1">> ELSE <<"A", "D", "1">>,
     timestamp |-> (i % 3) + 1]

ServerLogs(n) == [i \in 1..n |-> Log(i)]

\* the numbers of logs an answer may carry: none, one, a full page, one
\* more, and the most the model allows
LogCounts == {0, 1, logsPerPage, logsPerPage + 1, MaxLogs}

AuditResponses ==
    {NetworkError}
    \cup { Http(200, TRUE, [logs |-> ServerLogs(n)]) : n \in LogCounts }
    \cup { Http(200, TRUE, [total |-> 0]) }
    \cup { Http(s, TRUE, [error |-> "failed"]) : s \in {401, 500} }
    \cup { Http(200, FALSE, NoBody) }

\* String.prototype.toLowerCase
ToLowerCase(s) ==
    [i \in 1..Len(s) |->
        CASE s[i] = "D" -> "d" [] s[i] = "R" -> "r" [] s[i] = "A" -> "a"
          [] OTHER -> s[i]]

\* The filter form: the text of the user filter and the two dates (0: the
\* input is empty).  The action filter is left empty.
FilterForms ==
    [user : {<<>>, <<"D", "r">>, <<"z">>}, dateFrom : {0, 2}, dateTo : {0, 2}]

\* the callback applyFilters passes to currentLogs.filter
Passes(log, form) ==
    /\ form.user # <<>> =>
          Includes(ToLowerCase(log.user_id), ToLowerCase(form.user))
    /\ form.dateFrom # 0 => ~(log.timestamp < form.dateFrom)
    /\ form.dateTo # 0 => ~(log.timestamp > form.dateTo)

\* Math.ceil(n / d)
Ceil(n, d) == (n + d - 1) \div d

\* Math.min
Min(a, b) == IF a < b THEN a ELSE b

\* Array.prototype.slice(start, end), indices from 0, end not included
Slice(arr, start, end) == SubSeq(arr, start + 1, end)

pageLogs_skip(logs, page) ==
    LET startIndex == page * logsPerPage
        endIndex == Min(startIndex + logsPerPage, Len(logs))
    IN  Slice(logs, startIndex, endIndex)

\* the rows displayLogs puts in the table for page `page` of `logs`
pageLogs(logs, page) ==
    LET startIndex == (page - 1) * logsPerPage
        endIndex == Min(startIndex + logsPerPage, Len(logs))
    IN  Slice(logs, startIndex, endIndex)

\* displayLogs: the table body it leaves
displayLogs(logs, page) ==
    IF Len(logs) = 0 THEN <<>> ELSE pageLogs(logs, page)

\* updatePagination / nextPage
totalPages(logs) == Ceil(Len(logs), logsPerPage)

\* data.logs || []
logsOrEmpty(data) == IF "logs" \in DOMAIN data THEN data.logs ELSE <<>>

\* refreshLogs: loadAuditLogs up to its fetch
LoadAuditLogs ==
    /\ pathname = AuditPage
    /\ CanIssue
    /\ inflight' = Issue(AuthenticatedRequest(localStorage, "audit-recent"))
    /\ last' = Event("load_audit_logs", NoResponse, "none", "Refreshing audit logs...", Null)
    /\ UNCHANGED <<localStorage, pathname, navPending, redirectTimer, ui, directory,
                   auditVars>>

\* loadAuditLogs from the answer of its fetch on
AuditLogsResponse(req, resp) ==
    /\ pathname = AuditPage
    /\ req \in Pending("audit-recent")
    /\ inflight' = Settle(req)
    /\ LET r == authenticatedFetch(localStorage, resp)
       IN  /\ localStorage' = r.store
           /\ navPending' = (navPending \/ r.redirect)
           /\ IF r.ret = "throw" \/ ~resp.json
              THEN /\ last' = Event("audit_response", resp, r.ret,
                                    "Network error loading logs", Null)
                   /\ UNCHANGED auditVars
              ELSE IF Ok(resp)
              THEN /\ currentLogs' = logsOrEmpty(resp.data)
                   /\ filteredLogs' = currentLogs'
                   /\ tbody' = displayLogs(filteredLogs', currentPage)
                   /\ currentPage' = currentPage
                   /\ last' = Event("audit_response", resp, r.ret, "", Null)
              ELSE /\ last' = Event("audit_response", resp, r.ret,
                                    "Failed to load audit logs", Null)
                   /\ UNCHANGED auditVars
    /\ UNCHANGED <<pathname, ui, directory, redirectTimer>>

applyFilters(form) ==
    /\ pathname = AuditPage
    /\ filteredLogs' = SelectSeq(currentLogs, LAMBDA log : Passes(log, form))
    /\ currentPage' = 1
    /\ tbody' = displayLogs(filteredLogs', currentPage')
    /\ last' = Event("apply_filters", NoResponse, "none", "", Null)
    /\ UNCHANGED <<localStorage, pathname, navPending, redirectTimer, inflight, ui,
                   directory, currentLogs>>

previousPage ==
    /\ pathname = AuditPage
    /\ IF currentPage > 1
       THEN /\ currentPage' = currentPage - 1
            /\ tbody' = displayLogs(filteredLogs, currentPage')
       ELSE UNCHANGED <<currentPage, tbody>>
    /\ last' = Event("previous_page", NoResponse, "none", "", Null)
    /\ UNCHANGED <<localStorage, pathname, navPending, redirectTimer, inflight, ui,
                   directory, currentLogs, filteredLogs>>

nextPage ==
    /\ pathname = AuditPage
    /\ IF currentPage < totalPages(filteredLogs)
       THEN /\ currentPage' = currentPage + 1
            /\ tbody' = displayLogs(filteredLogs, currentPage')
       ELSE UNCHANGED <<currentPage, tbody>>
    /\ last' = Event("next_page", NoResponse, "none", "", Null)
    /\ UNCHANGED <<localStorage, pathname, navPending, redirectTimer, inflight, ui,
                   directory, currentLogs, filteredLogs>>

\* audit.html as its load leaves it for an auditor who had logged in
AuditorStore ==
    LoginStore(EmptyStore,
               [access_token |-> [sub |-> "DR001", n |-> 1],
                user_info |-> CHOOSE a \in UserInfoRecords :
                                  a.user_id = "DR001" /\ a.role = "auditor"])

AuditInit ==
    LET r == AuditLoaded(AuditorStore, AuditPage,
                         checkAuthStatusUI(AuditorStore, DomDefault))
    IN  /\ localStorage = AuditorStore
        /\ pathname = AuditPage
        /\ navPending = r.redirect
        /\ redirectTimer = r.timer
        /\ AuditGlobals
        /\ inflight = r.requests
        /\ ui = r.ui
        /\ directory = { a \in UserInfoRecords :
                            a.user_id = "DR001" /\ a.role = "auditor" }
        /\ last = Event("audit_load", NoResponse, "none", r.note, Null)

AuditNext ==
    \/ LoadAuditLogs
    \/ \E req \in BagToSet(inflight) : \E resp \in AuditResponses : AuditLogsResponse(req, resp)
    \/ \E form \in FilterForms : applyFilters(form)
    \/ previousPage
    \/ nextPage
    \/ RedirectCommit

AuditSpec == AuditInit /\ [][AuditNext]_vars

(***************************************************************************)
(* The forms of index.html (app.js).  A text input holds a short string of *)
(* characters: a blank, a comma, a letter.                                 *)
(***************************************************************************)
MaxText == 2

Chars == {" ", ",", "a"}
Texts == UNION { [1..n -> Chars] : n \in 0..MaxText }

\* the values typed into the fields other than the ICD list
FieldTexts == { <<>>, <<" ">>, <<"a">> }

\* String.prototype.trim
RECURSIVE TrimStart(_)
TrimStart(s) == IF s # <<>> /\ Head(s) = " " THEN TrimStart(Tail(s)) ELSE s

RECURSIVE TrimEnd(_)
TrimEnd(s) ==
    IF s # <<>> /\ s[Len(s)] = " " THEN TrimEnd(SubSeq(s, 1, Len(s) - 1)) ELSE s

Trim(s) == TrimEnd(TrimStart(s))

\* String.prototype.split(','): the pieces between the commas, the empty
\* ones included
RECURSIVE Split(_)
Split(s) ==
    IF \A i \in 1..Len(s) : s[i] # ","
    THEN <<s>>
    ELSE LET i == CHOOSE k \in 1..Len(s) :
                      s[k] = "," /\ \A j \in 1..(k - 1) : s[j] # ","
         IN  <<SubSeq(s, 1, i - 1)>> \o Split(SubSeq(s, i + 1, Len(s)))

\* icdCodesStr.split(',').map(code => code.trim()).filter(code => code)
icdCodes(icdCodesStr) ==
    LET parts == Split(icdCodesStr)
        trimmed == [i \in 1..Len(parts) |-> Trim(parts[i])]
    IN  SelectSeq(trimmed, LAMBDA code : code # <<>>)

\* the request of a form: the one authenticatedFetch sends, with its body
\* (for the search, its query string)
FormRequest(store, kind, body) ==
    LET r == AuthenticatedRequest(store, kind)
    IN  [kind |-> r.kind, auth |-> r.auth, user_id |-> r.user_id, body |-> body]

FormKinds == {"search", "translate", "fhir"}

searchCodes(input) ==
    LET query == Trim(input)
    IN  /\ pathname = IndexPage
        /\ IF query = <<>>
           THEN /\ last' = Event("search", NoResponse, "none",
                                 "Please enter a search query", Null)
                /\ UNCHANGED <<inflight, ui>>
           ELSE /\ CanIssue
                /\ ui' = showLoadingSpinner(ui)
                /\ inflight' = Issue(FormRequest(localStorage, "search", [q |-> query]))
                /\ last' = Event("search", NoResponse, "none", "Searching...", Null)
        /\ UNCHANGED <<localStorage, pathname, navPending, redirectTimer, directory,
                       auditVars>>

translateCode(input) ==
    LET namasteCode == Trim(input)
    IN  /\ pathname = IndexPage
        /\ IF namasteCode = <<>>
           THEN /\ last' = Event("translate", NoResponse, "none",
                                 "Please enter a NAMASTE code", Null)
                /\ UNCHANGED <<inflight, ui>>
           ELSE /\ CanIssue
                /\ ui' = showLoadingSpinner(ui)
                /\ inflight' = Issue(FormRequest(localStorage, "translate",
                                                 [namaste_code |-> namasteCode]))
                /\ last' = Event("translate", NoResponse, "none", "Translating...", Null)
        /\ UNCHANGED <<localStorage, pathname, navPending, redirectTimer, directory,
                       auditVars>>

generateFHIR(codeInput, icdInput, patientInput, abhaInput) ==
    LET namasteCode == Trim(codeInput)
        icdCodesStr == Trim(icdInput)
        patientId == Trim(patientInput)
        abhaId == Trim(abhaInput)
    IN  /\ pathname = IndexPage
        /\ IF namasteCode = <<>> \/ icdCodesStr = <<>> \/ patientId = <<>>
           THEN /\ last' = Event("fhir", NoResponse, "none",
                                 "Please fill in all required fields", Null)
                /\ UNCHANGED <<inflight, ui>>
           ELSE /\ CanIssue
                /\ ui' = showLoadingSpinner(ui)
                /\ inflight' = Issue(FormRequest(localStorage, "fhir",
                                        [namaste_code |-> namasteCode,
                                         icd_codes |-> icdCodes(icdCodesStr),
                                         patient_id |-> patientId,
                                         abha_id |-> IF abhaId = <<>> THEN Null
                                                     ELSE Some(abhaId)]))
                /\ last' = Event("fhir", NoResponse, "none",
                                 "Generating FHIR resource...", Null)
        /\ UNCHANGED <<localStorage, pathname, navPending, redirectTimer, directory,
                       auditVars>>

\* a form handler from the answer of its fetch on: try, catch, finally
FormResponse(req, resp) ==
    /\ req \in BagToSet(inflight)
    /\ req.kind \in FormKinds
    /\ inflight' = Settle(req)
    /\ LET r == authenticatedFetch(localStorage, resp)
       IN  /\ localStorage' = r.store
           /\ navPending' = (navPending \/ r.redirect)
           /\ last' = Event("form_response", resp, r.ret,
                            IF r.ret = "throw" \/ ~resp.json
                            THEN "Network error. Please try again."
                            ELSE IF Ok(resp) THEN "" ELSE "failed",
                            Null)
    /\ ui' = hideLoadingSpinner(ui)
    /\ UNCHANGED <<pathname, directory, redirectTimer, auditVars>>

FormInit ==
    /\ localStorage \in {EmptyStore,
                         LoginStore(EmptyStore,
                                    [access_token |-> [sub |-> "DR001", n |-> 1],
                                     user_info |-> CHOOSE a \in UserInfoRecords :
                                         a.user_id = "DR001" /\ a.role = "practitioner"])}
    /\ pathname = IndexPage
    /\ navPending = FALSE
    /\ redirectTimer = FALSE
    /\ AuditGlobals
    /\ inflight = EmptyBag
    /\ ui = checkAuthStatusUI(localStorage, DomDefault)
    /\ directory = { a \in UserInfoRecords :
                        a.user_id = "DR001" /\ a.role = "practitioner" }
    /\ last = Event("page_load", NoResponse, "none", "", Null)

FormNext ==
    \/ \E input \in Texts : searchCodes(input)
    \/ \E input \in Texts : translateCode(input)
    \/ \E code, patient, abha \in FieldTexts : \E icd \in Texts :
          generateFHIR(code, icd, patient, abha)
    \/ \E req \in BagToSet(inflight) : \E resp \in AnyResponses : FormResponse(req, resp)
    \/ RedirectCommit

FormSpec == FormInit /\ [][FormNext]_vars

(***************************************************************************)
(* Progress.  fetch settles every request it has sent, with a response or  *)
(* with an error, unless the page is unloaded first, and the event loop    *)
(* then runs the continuation of the handler that awaits it: a login or    *)
(* logout request that stays in flight is eventually answered.             *)
(***************************************************************************)
LoginSettles ==
    \E req \in BagToSet(inflight) : \E resp \in LoginResponses(req) : LoginResponse(req, resp)

LogoutSettles ==
    \E req \in BagToSet(inflight) : \E resp \in AnyResponses : LogoutResponse(req, resp)

\* handleLogin, logout and the page loads that interrupt them
LiveNext ==
    \/ \E uid \in { a.user_id : a \in directory } : LoginSubmit(uid)
    \/ LoginSettles
    \/ LogoutStart
    \/ LogoutSettles
    \/ RedirectCommit
    \/ \E p \in Pages : UserNavigate(p)

LiveSpec ==
    /\ Init
    /\ [][LiveNext]_vars
    /\ WF_vars(LoginSettles)
    /\ WF_vars(LogoutSettles)

(***************************************************************************)
(* Properties.                                                             *)
(***************************************************************************)
HasToken == "auth_token" \in DOMAIN localStorage
HasProfile == "user_info" \in DOMAIN localStorage
StoredRole == Prop(getUserInfo(localStorage)[1], "role")

Success(e) == e.status >= 200 /\ e.status <= 299
LoggedIn(e) == e.op = "login_response" /\ Success(e) /\ e.json
Refreshed(e) == e.op = "refresh_response" /\ Success(e) /\ e.json
Got401(e) == e.op \in {"api_response", "refresh_response"} /\ e.status = 401

\* the ranks of the role hierarchy as the specification lists them
Rank(role) ==
    CASE role = "practitioner" -> 1
      [] role = "researcher" -> 2
      [] role = "auditor" -> 3
      [] role = "admin" -> 4

\* C1: in every reachable state the token and the profile are both present
\* or both absent.
C1_TokenAndProfileTogether == HasToken <=> HasProfile

\* C2: when logout() has finished, the credential store holds no token and
\* no profile, whatever the logout request returned.
C2_LogoutClearsStore ==
    last.op = "logout_response" => ~HasToken /\ ~HasProfile

\* a logout that followed a login has finished after its request failed on
\* the network
C2_Witness ==
    last.op = "logout_response" /\ last.had /\ last.status = 0

\* C3: a 401 received through authenticatedFetch, whichever the endpoint,
\* removes token and profile, redirects to the landing page and throws to
\* the caller.
C3_UnauthorizedClearsAndThrows ==
    Got401(last) => ~HasToken /\ ~HasProfile /\ navPending /\ last.ret = "throw"

\* an ordinary API call of a logged-in user was answered 401
C3_Witness ==
    last.op = "api_response" /\ last.status = 401 /\ last.had

\* C4 as stated: a refresh that fails (any non-success status, 401
\* included, or a network error) leaves token and profile as they were.
C4_FailedRefreshKeepsStore ==
    [][(last'.op = "refresh_response" /\ ~Success(last'))
         => localStorage' = localStorage]_vars

\* C4 amended: a refresh that fails with a network error or with a
\* non-success status other than 401 leaves token and profile as they were.
C4_SoftFailExcept401 ==
    [][(last'.op = "refresh_response" /\ ~Success(last') /\ last'.status # 401)
         => localStorage' = localStorage]_vars

\* a refresh was answered 500 and the session is still stored
C4_Witness ==
    last.op = "refresh_response" /\ last.status = 500 /\ HasToken /\ HasProfile

C6_PermissionMonotonic ==
    \A q1, q2 \in RankedRoles :
        (Rank(q1) >= Rank(q2) /\ hasPermission(localStorage, q1))
            => hasPermission(localStorage, q2)

\* a session that has the auditor permission and lacks the admin one
C6_Witness ==
    /\ hasPermission(localStorage, "auditor")
    /\ ~hasPermission(localStorage, "admin")

\* C7: requireAuth returns true exactly when a session is present, and
\* redirects exactly when the path contains "dashboard" or "audit" and no
\* session is present.
C7_RequireAuth ==
    last.op = "require_auth" =>
        /\ (last.ret = "true") <=> (HasToken /\ HasProfile)
        /\ (last.note = "redirect") <=>
              (pathname \in {DashboardPage, AuditPage} /\ ~(HasToken /\ HasProfile))
        /\ (last.note = "redirect") => navPending

\* requireAuth ran on the audit page with no session
C7_Witness ==
    last.op = "require_auth" /\ pathname = AuditPage /\ ~HasToken /\ last.ret = "false"

\* C8: when the refresh timer fires while no token is stored, no request is
\* issued and the store is left unchanged.
C8_NoTokenNoRefresh ==
    [][(last'.op = "timer" /\ ~HasToken)
         => inflight' = inflight /\ localStorage' = localStorage]_vars

\* the timer has fired on an empty store while another request is in flight
C8_Witness ==
    last.op = "timer" /\ ~HasToken /\ ~HasProfile /\ inflight # EmptyBag

\* C9: a successful refresh stores the token of the response and leaves the
\* profile alone; the profile changes only at a successful login, a logout
\* or a 401.
C9_RefreshFrame ==
    [][/\ Refreshed(last') =>
            /\ GetItem(localStorage', "auth_token") = last'.tok
            /\ GetItem(localStorage', "user_info") = GetItem(localStorage, "user_info")
       /\ GetItem(localStorage', "user_info") # GetItem(localStorage, "user_info") =>
            LoggedIn(last') \/ last'.op = "logout_response" \/ Got401(last')]_vars

\* a refresh has replaced the token of a stored session by another one
C9_Witness ==
    /\ Refreshed(last) /\ last.had /\ HasProfile
    /\ getAuthToken(localStorage) = Some([sub |-> "DR001", n |-> 2])

\* C10: a login attempt that fails leaves the store as it was and reports
\* the server's message or "Login failed" for a non-success status, the
\* network error message for a network failure.
C10_FailedLogin ==
    [][(last'.op = "login_response" /\ ~Success(last')) =>
            /\ localStorage' = localStorage
            /\ last'.status = 0 => last'.note = "Network error. Please try again."
            /\ last'.status # 0 => last'.note \in {"Invalid credentials", "Login failed"}]_vars

\* the event left the page as the projection drew it: a login succeeded
\* (updateUIForLoggedInUser) or checkAuthStatus ran
Projected(e) == LoggedIn(e) \/ e.op \in {"page_load", "require_auth"}

\* C11: for a logged-in user the dashboard link is shown exactly when the
\* role has the researcher permission and the audit link exactly when it has
\* the auditor permission.
C11_LinksFollowPermission ==
    (Projected(last) /\ isAuthenticated(localStorage)) =>
        /\ (ui.dashboardLink = "inline-block") <=> hasPermission(localStorage, "researcher")
        /\ (ui.auditLink = "inline-block") <=> hasPermission(localStorage, "auditor")

\* the data requests of the page in flight
DataPending == { r \in BagToSet(inflight) : r.kind \in DataKinds }

\* C12 as stated: when the dashboard page has loaded, its data is requested
\* exactly when a session is stored whose role is researcher or admin;
\* otherwise nothing is requested and a redirect to the landing page is
\* under way.
C12_DashboardResearcherOrAdmin ==
    last.op = "dashboard_load" =>
        IF HasToken /\ HasProfile /\ StoredRole \in {"researcher", "admin"}
        THEN DataPending # {}
        ELSE DataPending = {} /\ (navPending \/ redirectTimer)

\* C13: when the audit page has loaded, the logs are requested exactly when
\* a session is stored whose role is auditor or admin; otherwise nothing is
\* requested and a redirect to the landing page is under way.
C13_AuditAuditorOrAdmin ==
    last.op = "audit_load" =>
        IF HasToken /\ HasProfile /\ StoredRole \in {"auditor", "admin"}
        THEN DataPending # {}
        ELSE DataPending = {} /\ (navPending \/ redirectTimer)

\* a researcher has opened the audit page: the delayed redirect is
\* scheduled and nothing was requested
C13_Witness ==
    /\ last.op = "audit_load" /\ HasToken /\ HasProfile /\ StoredRole = "researcher"
    /\ redirectTimer /\ inflight = EmptyBag

\* the sections and the navigation links of a page
Visible(u) == <<u.sections, u.dashboardLink, u.auditLink>>

\* C14: the sections and links the projection leaves are a function of
\* (isAuthenticated, profile.role): whatever the history, they are the ones
\* a freshly loaded page shows for the same store.
C14_ProjectionOfPair ==
    (Projected(last) \/ last.op = "logout_response") =>
        Visible(ui) = Visible(checkAuthStatusUI(localStorage, DomDefault))

\* C15: the projection is idempotent: in the state a call of checkAuthStatus
\* has left, a second call with the store unchanged leaves the page as it is.
C15_ProjectionIdempotent ==
    last.op \in {"page_load", "require_auth"} =>
        checkAuthStatusUI(localStorage, ui) = ui

\* checkAuthStatus has run on a page that had shown the audit link to an
\* earlier role while a login is awaited: links and spinner stay
C15_Witness ==
    /\ last.op = "require_auth" /\ isAuthenticated(localStorage)
    /\ StoredRole = "practitioner" /\ ui.auditLink = "inline-block" /\ ui.spinner

\* the stored profile decodes
ProfileDecodes == HasProfile /\ ~getUserInfoThrows(localStorage)

\* C16: hasPermission(Q) is false for every Q when no profile is stored;
\* with a stored role outside the four ranked ones it is false for every
\* ranked Q and true only for an unranked Q (for every unranked Q that is
\* not the name of an inherited key, when the stored role is not one either).
C16_UnrankedIsRankZero ==
    last.op = "has_permission" =>
        /\ ~HasProfile => last.ret = "false"
        /\ (ProfileDecodes /\ StoredRole \notin RankedRoles) =>
              /\ last.note \in RankedRoles => last.ret = "false"
              /\ last.ret = "true" => last.note \notin RankedRoles
              /\ (StoredRole \notin InheritedKeys
                    /\ last.note \notin RankedRoles \cup InheritedKeys)
                   => last.ret = "true"

\* a profile with the unranked role "guest" was asked for the permission
\* "guest" and has it
C16_Witness ==
    /\ last.op = "has_permission" /\ ProfileDecodes
    /\ StoredRole = "guest" /\ last.note = "guest" /\ last.ret = "true"

\* C17: when the stored profile text cannot be decoded, checkAuthStatus,
\* requireAuth and hasPermission behave as for an absent profile: no parse
\* error, the answer false, and the page of a logged-out user.
C17_DecodeFailureIsNoProfile ==
    (getUserInfoThrows(localStorage)
        /\ last.op \in {"page_load", "require_auth", "has_permission"}) =>
        /\ last.ret # "SyntaxError"
        /\ last.op \in {"require_auth", "has_permission"} => last.ret = "false"
        /\ last.op \in {"page_load", "require_auth"} =>
              Visible(ui) = Visible(updateUIForLoggedOutUser(ui))

\* C18: checkAuthStatus answers true exactly when a token entry and a
\* profile entry are both present in the store, whatever token string a
\* login stored.
C18_AuthenticatedIffBothPresent ==
    (last.op = "require_auth" /\ ~getUserInfoThrows(localStorage)) =>
        ((last.ret = "true") <=> (HasToken /\ HasProfile))

\* the Authorization header the specification asks for
BearerOfStore ==
    IF HasToken THEN <<"Bearer", localStorage["auth_token"]>> ELSE <<>>

\* C19: every request authenticatedFetch issues carries "Bearer <stored
\* token>" when a token is stored and the empty string when none is,
\* whatever headers the caller's options carry.
C19_BearerOfStoredToken ==
    [][last'.op = "fetch_call" =>
          \E req \in BagToSet(inflight') :
              /\ inflight' = Issue(req)
              /\ req.auth = BearerOfStore]_vars

\* C20: a login submission, a call of authenticatedFetch and a firing of
\* the refresh timer each put at most one request in flight, and the
\* handling of an answer (a 401, another status or a network failure) takes
\* the answered request away and sends nothing.
C20_SingleAttempt ==
    [][/\ last'.op \in {"login_submit", "api_call", "timer"} =>
            \/ inflight' = inflight
            \/ \E req \in BagToSet(inflight') :
                  inflight' = inflight (+) SetToBag({req})
       /\ last'.op \in {"login_response", "api_response", "refresh_response"} =>
            \E req \in BagToSet(inflight) :
                inflight' = inflight (-) SetToBag({req})]_vars

\* a refresh was answered 401 and nothing is in flight afterwards
C20_Witness ==
    /\ last.op = "refresh_response" /\ last.status = 401 /\ last.had
    /\ inflight = EmptyBag

C22_RefreshLogoutRace ==
    [][/\ (Refreshed(last') /\ ~HasToken /\ ~HasProfile) =>
             /\ GetItem(localStorage', "auth_token") = last'.tok
             /\ "user_info" \notin DOMAIN localStorage'
       /\ (Refreshed(last) /\ last'.op = "logout_response") =>
             "auth_token" \notin DOMAIN localStorage']_vars

\* the refresh answer has arrived on the store a logout cleared: no 401
\* cleared it, since no redirect is pending and the page was not reloaded
C22_Witness ==
    /\ Refreshed(last) /\ ~last.had /\ ~navPending
    /\ HasToken /\ ~HasProfile

\* C23: whenever a token and a profile are both stored, the token was
\* issued to the user the profile names.
C23_TokenOfProfileUser ==
    (HasToken /\ HasProfile) =>
        localStorage["auth_token"].sub = Prop(getUserInfo(localStorage)[1], "user_id")

\* the answered request of a step that handled an answer
Answered(req) == inflight' = inflight (-) SetToBag({req})

\* C24: a 401 clears the store only when the request it answers was sent
\* with the token that is still stored; a 401 for a request of an earlier
\* session leaves the store of the new session alone.
C24_StaleUnauthorizedIgnored ==
    [][Got401(last') =>
          \A req \in BagToSet(inflight) :
              (Answered(req) /\ req.auth # getAuthHeaders(localStorage))
                  => localStorage' = localStorage]_vars

\* C25 as stated: whenever filteredLogs is not empty, the current page lies
\* between 1 and ceil(|filteredLogs| / 50), so the page shown is not empty.
C25_PageInRange ==
    Len(filteredLogs) > 0 =>
        /\ currentPage >= 1
        /\ currentPage <= Ceil(Len(filteredLogs), 50)
        /\ (last.op \in {"audit_response", "apply_filters", "previous_page", "next_page"}
              /\ pathname = AuditPage) => tbody # <<>>

\* the slices of pages 1..p of `logs`, one after the other
RECURSIVE PagesUpTo(_, _)
PagesUpTo(logs, p) ==
    IF p = 0 THEN <<>> ELSE PagesUpTo(logs, p - 1) \o pageLogs(logs, p)

\* C26: the slices of pages 1..ceil(n/50) of filteredLogs, concatenated, are
\* filteredLogs; every log is on exactly one page; no page has more than 50.
C26_PagesPartition ==
    LET n == Ceil(Len(filteredLogs), 50)
    IN  /\ PagesUpTo(filteredLogs, n) = filteredLogs
        /\ \A p \in 1..n : Len(pageLogs(filteredLogs, p)) <= 50
        /\ \A i \in 1..Len(filteredLogs) :
              Cardinality({ p \in 1..n :
                  \E j \in 1..Len(pageLogs(filteredLogs, p)) :
                      /\ (p - 1) * 50 + j = i
                      /\ pageLogs(filteredLogs, p)[j] = filteredLogs[i] }) = 1

\* the last of three pages is shown, and it is not full
C26_Witness ==
    /\ Len(filteredLogs) > 2 * 50
    /\ currentPage = 3
    /\ last.op = "next_page"
    /\ tbody = pageLogs(filteredLogs, 3)
    /\ Len(tbody) >= 1 /\ Len(tbody) < 50

\* C27 as stated, for the two operations of auth.js that show the spinner:
\* the spinner is visible exactly while a login or logout request is in
\* flight.
C27_SpinnerWhileInFlight ==
    ui.spinner <=> (Pending("login") \cup Pending("logout") # {})

\* C28 as stated: no search request carries an empty trimmed query, no
\* translate request an empty trimmed code, and no FHIR request an empty
\* NAMASTE code, an empty patient id or an empty icd_codes list.
C28_NoRequestOnInvalidInput ==
    \A req \in BagToSet(inflight) :
        /\ req.kind = "search" => req.body.q # <<>>
        /\ req.kind = "translate" => req.body.namaste_code # <<>>
        /\ req.kind = "fhir" =>
              /\ req.body.namaste_code # <<>>
              /\ req.body.patient_id # <<>>
              /\ req.body.icd_codes # <<>>

\* C29 as stated: when a loader of the dashboard has failed (its fetch threw:
\* a 401 or a network error), the requests of the other loaders stay in
\* flight until each is answered, unless the user opens another page; and
\* the charts are drawn only by a step that leaves no loader request in
\* flight.  (The user opens a page only while no redirect is pending.)
C29_LoadersIndependent ==
    [][/\ (/\ last.op = "data_response" /\ last.ret = "throw"
           /\ pathname = DashboardPage
           /\ last'.op # "data_response"
           /\ (navPending \/ pathname' = pathname))
              => \A req \in DataPending :
                     CopiesIn(req, inflight') = CopiesIn(req, inflight)
       /\ (~ui.charts /\ ui'.charts)
              => \A q \in BagToSet(inflight') : q.kind \notin DataKinds]_vars

\* C30: a login request in flight is eventually answered by handleLogin,
\* which ends with the spinner hidden, and a logout request in flight is
\* eventually answered by logout, which ends with the spinner hidden and no
\* session; unless a page load discards the request, which then never
\* settles.
C30_LoginLogoutComplete ==
    /\ (Pending("login") # {}) ~>
           \/ last.op = "login_response" /\ ~ui.spinner
           \/ last.op = "page_load"
    /\ (Pending("logout") # {}) ~>
           \/ /\ last.op = "logout_response" /\ ~ui.spinner
              /\ ~isAuthenticated(localStorage)
           \/ last.op = "page_load"

\* a logout of a stored session has completed on the landing page while a
\* login is still awaited
C30_Witness ==
    /\ last.op = "logout_response" /\ last.had
    /\ ~ui.spinner /\ ~isAuthenticated(localStorage)
    /\ pathname = IndexPage /\ Pending("login") # {}

====
